---- MODULE Spec2Model ----
(***************************************************************************)
(* Model of the feedback pipeline of Feedback-Sentiment-Analyzer:          *)
(* Parser.__init__ (which builds the Cluster), Parser.run and the passes   *)
(* it calls, Cluster.package_model_data, Cluster.assign_topic,             *)
(* Sentiment.get_feedback_sentiment, Summary.get_output and                *)
(* Subtopic.get_data_dict.                                                 *)
(*                                                                         *)
(* Python values are modelled as follows.                                  *)
(*  - A str that the code strips (a feedback string, the text a model      *)
(*    generates) is a sequence of tokens, each a word or a whitespace      *)
(*    token; every other str is a TLA+ string.                             *)
(*  - A dict is the sequence of its items [k, v] in insertion order.       *)
(*  - None is the value None below, which no str of the model equals.      *)
(* The external engines are inputs: the Clustering Engine's topic info and *)
(* merge table are chosen in Init, the sentiment classifier is the         *)
(* function smt_pipe, and the text generator returns, at every call, any   *)
(* outcome of the set t_pipe chosen in Init.                               *)
(* Not modelled: Subtopic.name and its cleaning, Subtopic.tags and the     *)
(* wording of the prompts (no branch of the orchestration reads them).     *)
(***************************************************************************)
EXTENDS Integers, Sequences, FiniteSets, TLC

\* ---------------------------------------------------------------- bounds
\* Longest merge table the Clustering Engine returns (hierarchy family).
MaxRows == 3
\* Longest list of representative documents of one cluster (sample family).
MaxDocs == 5
\* Most clusters of a corpus (large family); above HEAD_ROWS.
MaxLarge == 26
\* How often a naming pass is called again after run().
MaxReruns == 1

\* ------------------------------------------------------ program constants
\* feedback[:4] in package_model_data.
SAMPLE_SIZE == 4
\* get_summary().head(25) in run.
HEAD_ROWS == 25
\* The id of the uncategorized cluster, skipped by package_model_data.
OUTLIER == -1

None == "<None>"
NEUTRAL == "NEUTRAL"
ERROR_SUMMARY == "Error generating summary"
NO_TOPIC == "None"

\* ------------------------------------------------------------ Python str
Whitespace == {" ", "\n"}

RECURSIVE LStrip(_)
LStrip(s) ==
    IF s = <<>> THEN <<>>
    ELSE IF Head(s) \in Whitespace THEN LStrip(Tail(s)) ELSE s

RECURSIVE RStrip(_)
RStrip(s) ==
    IF s = <<>> THEN <<>>
    ELSE IF s[Len(s)] \in Whitespace THEN RStrip(SubSeq(s, 1, Len(s) - 1)) ELSE s

RECURSIVE Join(_)
Join(s) == IF s = <<>> THEN "" ELSE Head(s) \o Join(Tail(s))

\* str.strip(): the text without its leading and trailing whitespace.
Strip(s) == Join(RStrip(LStrip(s)))

\* ----------------------------------------------------------- Python dict
DictHas(d, key) == \E n \in 1..Len(d) : d[n].k = key

DictGet(d, key) == d[CHOOSE n \in 1..Len(d) : d[n].k = key].v

\* d[key] = val: an existing key keeps its place, a new key goes last.
DictPut(d, key, val) ==
    IF DictHas(d, key)
    THEN [n \in 1..Len(d) |-> IF d[n].k = key THEN [k |-> key, v |-> val] ELSE d[n]]
    ELSE Append(d, [k |-> key, v |-> val])

\* list[:n]
Take(s, n) == SubSeq(s, 1, IF Len(s) < n THEN Len(s) ELSE n)

Range(s) == {s[n] : n \in 1..Len(s)}

\* ------------------------------------------------------ Sentiment Engine
\* The classifier behind smt_pipe, a function of the text it is given.
smt_pipe(fb) ==
    CASE Strip(fb) = "good" -> "Positive"
      [] Strip(fb) = "bad"  -> "Negative"
      [] OTHER              -> "Neutral"

\* get_feedback_sentiment without the guard for blank feedback.
get_feedback_sentiment_unguarded(fb) == smt_pipe(fb)

\* Sentiment.get_feedback_sentiment(feedback)["label"]
get_feedback_sentiment(fb) ==
    IF Strip(fb) = "" THEN NEUTRAL ELSE smt_pipe(fb)

\* Whether get_feedback_sentiment calls the classifier for fb.
CallsPipe(fb) == Strip(fb) # ""

\* sentiment_counts[sentiment] += 1 on a defaultdict(int)
DictIncr(d, key) ==
    DictPut(d, key, IF DictHas(d, key) THEN DictGet(d, key) + 1 ELSE 1)

\* Parser._get_sentimental(feedback)
RECURSIVE _get_sentimental_from(_, _)
_get_sentimental_from(counts, feedback) ==
    IF feedback = <<>> THEN counts
    ELSE _get_sentimental_from(
             DictIncr(counts, get_feedback_sentiment(Head(feedback))),
             Tail(feedback))

_get_sentimental(feedback) == _get_sentimental_from(<<>>, feedback)

\* The classifier calls _get_sentimental(feedback) issues for cluster tid.
RECURSIVE SentimentCalls(_, _)
SentimentCalls(tid, feedback) ==
    IF feedback = <<>> THEN <<>>
    ELSE (IF CallsPipe(Head(feedback))
          THEN <<[engine |-> "sentiment", kind |-> "label", topic |-> "",
                  st |-> tid, raised |-> FALSE, text |-> Head(feedback)]>>
          ELSE <<>>) \o SentimentCalls(tid, Tail(feedback))

\* ------------------------------------------------------ Clustering Engine
\* One row of topic_model.get_topic_info(), with what get_topic_freq and
\* get_representative_docs return for its topic id.
ClusterRow(id, count, docs) == [Topic |-> id, Count |-> count, Docs |-> docs]

\* One row of topic_model.hierarchical_topics(): a merge node.
MergeNode(leaves, pid, pname) ==
    [Topics |-> leaves, Parent_ID |-> pid, Parent_Name |-> pname]

\* Cluster.package_model_data(): the dict topic id -> record, in the order of
\* the topic info, without the uncategorized cluster.
RECURSIVE package_from(_, _)
package_from(data, rows) ==
    IF rows = <<>> THEN data
    ELSE IF Head(rows).Topic = OUTLIER THEN package_from(data, Tail(rows))
    ELSE package_from(
             DictPut(data, Head(rows).Topic,
                     [id |-> Head(rows).Topic,
                      count |-> Head(rows).Count,
                      feedback |-> Take(Head(rows).Docs, SAMPLE_SIZE)]),
             Tail(rows))

package_model_data(rows) == package_from(<<>>, rows)

\* matching_rows['Topics'].apply(len).min()
MinLen(rows) ==
    CHOOSE m \in {Cardinality(rows[n].Topics) : n \in 1..Len(rows)} :
        \A n \in 1..Len(rows) : m <= Cardinality(rows[n].Topics)

\* Inserts row r into rows, sorted ascending by Parent_ID, after the rows
\* that are not greater.
RECURSIVE InsertByParentID(_, _)
InsertByParentID(rows, r) ==
    IF rows = <<>> THEN <<r>>
    ELSE IF Head(rows).Parent_ID <= r.Parent_ID
         THEN <<Head(rows)>> \o InsertByParentID(Tail(rows), r)
         ELSE <<r>> \o rows

\* smallest_rows.sort_values(by='Parent_ID', ascending=True)
RECURSIVE SortByParentID(_)
SortByParentID(rows) ==
    IF rows = <<>> THEN <<>>
    ELSE InsertByParentID(SortByParentID(SubSeq(rows, 1, Len(rows) - 1)),
                          rows[Len(rows)])

\* assign_topic without the sort: the first minimal row in table order.
assign_topic_unsorted(rows, t_id) ==
    LET Has(r) == t_id \in r.Topics
        matching_rows == SelectSeq(rows, Has)
    IN  IF matching_rows = <<>> THEN None
        ELSE LET min_len == MinLen(matching_rows)
                 IsMin(r) == Cardinality(r.Topics) = min_len
             IN  SelectSeq(matching_rows, IsMin)[1].Parent_Name

\* Cluster.assign_topic(t_id) on the merge table rows.
assign_topic(rows, t_id) ==
    LET Has(r) == t_id \in r.Topics
        matching_rows == SelectSeq(rows, Has)
    IN  IF matching_rows = <<>> THEN None
        ELSE LET min_len == MinLen(matching_rows)
                 IsMin(r) == Cardinality(r.Topics) = min_len
                 smallest_rows == SelectSeq(matching_rows, IsMin)
                 sorted == IF Len(smallest_rows) > 1
                           THEN SortByParentID(smallest_rows)
                           ELSE smallest_rows
             IN  sorted[1].Parent_Name

\* ------------------------------------------------------------- entities
\* Subtopic(id=, count=, feedback=, sentiment=): read_name and summary
\* default to None.
Subtopic(id, count, feedback, sentiment) ==
    [id |-> id, count |-> count, feedback |-> feedback,
     sentiment |-> sentiment, read_name |-> None, summary |-> None]

\* Topic(name=, related_sub_topics=): subtopic_data defaults to [] and
\* read_name to "".
Topic(name, related_sub_topics) ==
    [name |-> name, related_sub_topics |-> related_sub_topics,
     subtopic_data |-> <<>>, read_name |-> ""]

\* max(self.sentiment, key=self.sentiment.get) on a non-empty dict: the
\* first key, in insertion order, whose count no key exceeds.
MaxLabel(sentiment) ==
    LET n == CHOOSE m \in 1..Len(sentiment) :
                 /\ \A j \in 1..Len(sentiment) : sentiment[j].v <= sentiment[m].v
                 /\ \A j \in 1..(m - 1) : sentiment[j].v < sentiment[m].v
    IN  sentiment[n].k

\* Subtopic.get_data_dict() for a Subtopic with a non-empty sentiment dict.
get_data_dict(st) ==
    [subtopic |-> st.read_name,
     sentiment |-> MaxLabel(st.sentiment),
     number_of_responses |-> st.count,
     summary |-> st.summary]

\* Topic.lookup_sub_topic(sub_topics): the members found in sub_topics, whose
\* data strings the Topic then holds.
lookup_sub_topic(t, sub_topics) ==
    LET Known(id) == DictHas(sub_topics, id)
    IN  [t EXCEPT !.subtopic_data = SelectSeq(t.related_sub_topics, Known)]

\* ------------------------------------------- Language Generation Engine
\* What one call of t_pipe does: it raises, or returns the text gen_text.
Raises == [raised |-> TRUE, text |-> <<>>]
Generates(gen_text) == [raised |-> FALSE, text |-> gen_text]

\* Summary.get_output(name, prompt) when t_pipe does `outcome`.
get_output(outcome) ==
    IF outcome.raised THEN ERROR_SUMMARY ELSE Strip(outcome.text)

GenCall(kind, topic, st, outcome) ==
    [engine |-> "generation", kind |-> kind, topic |-> topic, st |-> st,
     raised |-> outcome.raised, text |-> outcome.text]

\* ---------------------------------------------------------------- state
VARIABLES
    sentences,      \* Cluster.sentences: the number of feedback rows of the input
    info,           \* what the fitted topic model reports: a sequence of ClusterRow
    hier,           \* what hierarchical_topics returns: a sequence of MergeNode
    t_pipe,         \* the outcomes a call of Summary.t_pipe can have
    topic_model,    \* Cluster.topic_model: "unset", "None" or "BERTopic"
    has_hierarchy,  \* whether the attribute Cluster.hierarchy is set
    pc,             \* where the Parser is
    i,              \* position of the running loop, from 1
    caller,         \* "run", or "again" for a naming pass called after run()
    reruns,         \* naming passes called again so far
    error,          \* the exception that ended run(), or "none"
    data,           \* package_model_data()'s result, being iterated
    subtopics,      \* Parser.subtopics: dict id -> Subtopic
    t_dict,         \* _build_topics' t_dict: dict name -> list of ids
    topics,         \* Parser.topics: list of Topic
    records,        \* get_summary's records
    report,         \* data/output.csv: [written, rows]
    calls           \* every engine call so far, in order

vars == <<sentences, info, hier, t_pipe, topic_model, has_hierarchy, pc, i,
          caller, reruns, error, data, subtopics, t_dict, topics, records,
          report, calls>>

inputs == <<sentences, info, hier, t_pipe>>

\* ---------------------------------------------------------------- inputs
FbTexts == {<<>>, <<" ">>, <<"good">>, <<"bad">>}

\* The generator's behaviours: always the same name, sometimes failing,
\* sometimes returning only whitespace, or returning either of two names.
TPipes == {{Generates(<<" ", "A", "\n">>)},
           {Raises, Generates(<<" ", "A", "\n">>)},
           {Generates(<<" ">>), Generates(<<"B">>)}}

Counts == {4, 7}

Leaves == {0, 1}

SeqsUpTo(S, n) == UNION {[1..m -> S] : m \in 0..n}

\* The rows of the corpus: every cluster's membership count, the outliers'
\* included.
RECURSIVE SumCounts(_)
SumCounts(rows) ==
    IF rows = <<>> THEN 0 ELSE Head(rows).Count + SumCounts(Tail(rows))

\* The name of merge node pid: odd nodes share one name, even nodes another.
ParentName(pid) == IF pid % 2 = 1 THEN "a" ELSE "b"

\* Merge tables of at most MaxRows nodes over Leaves, in every row order,
\* each node with a Parent_ID of its own.
MergeTables ==
    {[n \in 1..Len(t) |->
         MergeNode(t[n].Topics, t[n].Parent_ID, ParentName(t[n].Parent_ID))] :
     t \in {u \in SeqsUpTo([Topics : SUBSET Leaves \ {{}},
                            Parent_ID : 1..MaxRows], MaxRows) :
              \A m, n \in 1..Len(u) :
                  m # n => u[m].Parent_ID # u[n].Parent_ID}}

\* Two clusters under two parents, and two clusters under one.
TwoParents == <<MergeNode({0}, 2, "a"), MergeNode({1}, 3, "b"),
                MergeNode({0, 1}, 4, "a_b")>>
OneParent == <<MergeNode({0, 1}, 2, "a")>>

\* n clusters counted down from n - 1 or up from 0, cluster c with 4 + c
\* members, after the outliers.
LargeInfo(n, down) ==
    <<ClusterRow(OUTLIER, 1, <<>>)>>
    \o [m \in 1..n |->
          LET c == IF down THEN n - m ELSE m - 1
          IN  ClusterRow(c, 4 + c, <<<<"good">>>>)]

\* --------------------------------------------------------------- initial
\* Before the Parser is constructed, on the inputs s, inf, h, tp.
InitWith(s, inf, h, tp) ==
    /\ sentences = s
    /\ info = inf
    /\ hier = h
    /\ t_pipe = tp
    /\ topic_model = "unset"
    /\ has_hierarchy = FALSE
    /\ pc = "new"
    /\ i = 1
    /\ caller = "run"
    /\ reruns = 0
    /\ error = "none"
    /\ data = <<>>
    /\ subtopics = <<>>
    /\ t_dict = <<>>
    /\ topics = <<>>
    /\ records = <<>>
    /\ report = [written |-> FALSE, rows |-> <<>>]
    /\ calls = <<>>

\* An input without feedback rows.
InitEmpty == InitWith(0, <<>>, <<>>, {Generates(<<"B">>)})

\* Two clusters and the outliers under every merge table.
InitHier ==
    \E h \in MergeTables :
        LET inf == <<ClusterRow(OUTLIER, 2, <<<<"bad">>>>),
                     ClusterRow(1, 7, <<<<"good">>>>),
                     ClusterRow(0, 4, <<<<"bad">>, <<"good">>>>)>>
        IN  InitWith(SumCounts(inf), inf, h, {Generates(<<"B">>)})

\* Two clusters, the second with or without representative documents, under
\* every behaviour of the generator.
InitGen ==
    \E h \in {TwoParents, OneParent}, tp \in TPipes,
       d \in {<<<<"bad">>, <<" ">>>>, <<>>} :
        LET inf == <<ClusterRow(0, 4, <<<<"good">>>>), ClusterRow(1, 7, d)>>
        IN  InitWith(SumCounts(inf), inf, h, tp)

\* One cluster with every list of representative documents.
InitSample ==
    \E c \in Counts, d \in SeqsUpTo(FbTexts, MaxDocs) :
        LET inf == <<ClusterRow(0, c, d)>>
        IN  InitWith(SumCounts(inf), inf, <<MergeNode({0}, 1, "a")>>,
                     {Generates(<<"B">>)})

\* Up to MaxLarge clusters.
InitLarge ==
    \E n \in 0..MaxLarge, down \in BOOLEAN :
        LET inf == LargeInfo(n, down)
            h == IF n = 0 THEN <<>> ELSE <<MergeNode(0..(n - 1), n, "all")>>
        IN  InitWith(SumCounts(inf), inf, h, {Generates(<<"B">>)})

Init == InitEmpty \/ InitHier \/ InitGen \/ InitSample \/ InitLarge

\* ------------------------------------------------------------- actions
\* Parser.__init__: Cluster.__init__ fits the topic model and sets the
\* hierarchy only when there are sentences.
Construct ==
    /\ pc = "new"
    /\ topic_model' = IF sentences = 0 THEN "None" ELSE "BERTopic"
    /\ has_hierarchy' = (sentences # 0)
    /\ pc' = "constructed"
    /\ UNCHANGED <<inputs, i, caller, reruns, error, data, subtopics, t_dict,
                   topics, records, report, calls>>

\* run() -> _build_subtopics() -> package_model_data() on a fitted model.
Run_Package ==
    /\ pc = "constructed"
    /\ topic_model = "BERTopic"
    /\ data' = package_model_data(info)
    /\ pc' = "build_subtopics"
    /\ i' = 1
    /\ UNCHANGED <<inputs, topic_model, has_hierarchy, caller, reruns, error,
                   subtopics, t_dict, topics, records, report, calls>>

\* package_model_data() when topic_model is None: get_topic_info is looked
\* up on None.
Run_PackageFails ==
    /\ pc = "constructed"
    /\ topic_model = "None"
    /\ error' = "AttributeError"
    /\ pc' = "failed"
    /\ UNCHANGED <<inputs, topic_model, has_hierarchy, i, caller, reruns, data,
                   subtopics, t_dict, topics, records, report, calls>>

\* build_subtopic counting the sample instead of the cluster.
build_subtopic_sample_count(dt, sentiment_count) ==
    Subtopic(dt.id, Len(dt.feedback), dt.feedback, sentiment_count)

\* The Subtopic _build_subtopics makes of the record dt and its tally.
build_subtopic(dt, sentiment_count) ==
    Subtopic(dt.id, dt.count, dt.feedback, sentiment_count)

\* One turn of _build_subtopics' loop: the sentiment tally of the sample,
\* then the Subtopic.
BuildSubtopic ==
    /\ pc = "build_subtopics"
    /\ i <= Len(data)
    /\ LET tid == data[i].k
           dt == data[i].v
           sentiment_count == _get_sentimental(dt.feedback)
           st == build_subtopic(dt, sentiment_count)
       IN  /\ subtopics' = DictPut(subtopics, tid, st)
           /\ calls' = calls \o SentimentCalls(tid, dt.feedback)
    /\ i' = i + 1
    /\ UNCHANGED <<inputs, topic_model, has_hierarchy, pc, caller, reruns,
                   error, data, t_dict, topics, records, report>>

\* _build_subtopics returns; _build_topics starts with an empty t_dict.
BuildSubtopicsEnd ==
    /\ pc = "build_subtopics"
    /\ i > Len(data)
    /\ pc' = "build_topics"
    /\ i' = 1
    /\ t_dict' = <<>>
    /\ UNCHANGED <<inputs, topic_model, has_hierarchy, caller, reruns, error,
                   data, subtopics, topics, records, report, calls>>

\* GroupUnder replacing the list instead of appending to it.
GroupUnder_replace(d, name, st_id) == DictPut(d, name, <<st_id>>)

\* t_dict[name].append(st_id) on a defaultdict(list)
GroupUnder(d, name, st_id) ==
    DictPut(d, name, (IF DictHas(d, name) THEN DictGet(d, name) ELSE <<>>)
                     \o <<st_id>>)

\* One turn of _build_topics' first loop.
GroupSubtopic ==
    /\ pc = "build_topics"
    /\ i <= Len(subtopics)
    /\ has_hierarchy
    /\ LET st_id == subtopics[i].k
           name == assign_topic(hier, st_id)
       IN  t_dict' = GroupUnder(t_dict, name, st_id)
    /\ i' = i + 1
    /\ UNCHANGED <<inputs, topic_model, has_hierarchy, pc, caller, reruns,
                   error, data, subtopics, topics, records, report, calls>>

\* _build_topics' second loop: one Topic per item of t_dict.
TopicsOf(d) == [n \in 1..Len(d) |-> Topic(d[n].k, d[n].v)]

CreateTopics ==
    /\ pc = "build_topics"
    /\ i > Len(subtopics)
    /\ topics' = topics \o TopicsOf(t_dict)
    /\ pc' = "build_topic_names"
    /\ i' = 1
    /\ UNCHANGED <<inputs, topic_model, has_hierarchy, caller, reruns, error,
                   data, subtopics, t_dict, records, report, calls>>

\* `if t.read_name: continue`: neither None nor "".
Truthy(str) == str # None /\ str # ""

\* _build_topic_names skips a Topic that has a read_name.
NameTopic_Skip ==
    /\ pc = "build_topic_names"
    /\ i <= Len(topics)
    /\ Truthy(topics[i].read_name)
    /\ i' = i + 1
    /\ UNCHANGED <<inputs, topic_model, has_hierarchy, pc, caller, reruns,
                   error, data, subtopics, t_dict, topics, records, report,
                   calls>>

\* _build_topic_names names a Topic: lookup_sub_topic, name_prompt,
\* get_output.
NameTopic ==
    /\ pc = "build_topic_names"
    /\ i <= Len(topics)
    /\ ~Truthy(topics[i].read_name)
    /\ topics[i].name # None
    /\ \E outcome \in t_pipe :
        /\ topics' = [topics EXCEPT ![i] =
               [lookup_sub_topic(topics[i], subtopics)
                   EXCEPT !.read_name = get_output(outcome)]]
        /\ calls' = Append(calls,
               GenCall("topic_name", topics[i].name, OUTLIER, outcome))
    /\ i' = i + 1
    /\ UNCHANGED <<inputs, topic_model, has_hierarchy, pc, caller, reruns,
                   error, data, subtopics, t_dict, records, report>>

\* Topic.name_prompt() on a Topic whose name is None: self.name.replace
\* is looked up on None, outside get_output's try.
NameTopic_PromptFails ==
    /\ pc = "build_topic_names"
    /\ i <= Len(topics)
    /\ ~Truthy(topics[i].read_name)
    /\ topics[i].name = None
    /\ topics' = [topics EXCEPT ![i] = lookup_sub_topic(topics[i], subtopics)]
    /\ error' = "AttributeError"
    /\ pc' = "failed"
    /\ UNCHANGED <<inputs, topic_model, has_hierarchy, i, caller, reruns, data,
                   subtopics, t_dict, records, report, calls>>

\* _build_topic_names returns, to run() or to who called it again.
TopicNamesEnd ==
    /\ pc = "build_topic_names"
    /\ i > Len(topics)
    /\ pc' = IF caller = "run" THEN "build_subtopic_info" ELSE "done"
    /\ i' = 1
    /\ UNCHANGED <<inputs, topic_model, has_hierarchy, caller, reruns, error,
                   data, subtopics, t_dict, topics, records, report, calls>>

\* One turn of _build_subtopic_info's loop: the name call, the summary
\* call, then both assignments.
SubtopicInfo ==
    /\ pc = "build_subtopic_info"
    /\ i <= Len(subtopics)
    /\ \E name_outcome \in t_pipe, summary_outcome \in t_pipe :
        LET st == subtopics[i].v
            read_name == get_output(name_outcome)
            summary_txt == get_output(summary_outcome)
        IN  /\ subtopics' = [subtopics EXCEPT ![i].v =
                   [st EXCEPT !.read_name = read_name,
                              !.summary = summary_txt]]
            /\ calls' = calls \o
                   <<GenCall("subtopic_name", "", st.id, name_outcome),
                     GenCall("summary", "", st.id, summary_outcome)>>
    /\ i' = i + 1
    /\ UNCHANGED <<inputs, topic_model, has_hierarchy, pc, caller, reruns,
                   error, data, t_dict, topics, records, report>>

\* _build_subtopic_info returns; in run(), get_summary starts.
SubtopicInfoEnd ==
    /\ pc = "build_subtopic_info"
    /\ i > Len(subtopics)
    /\ pc' = IF caller = "run" THEN "get_summary" ELSE "done"
    /\ records' = IF caller = "run" THEN <<>> ELSE records
    /\ i' = 1
    /\ UNCHANGED <<inputs, topic_model, has_hierarchy, caller, reruns, error,
                   data, subtopics, t_dict, topics, report, calls>>

\* get_summary's d_map = {t.read_name: t.related_sub_topics for t in topics}
RECURSIVE d_map_from(_, _)
d_map_from(d, ts) ==
    IF ts = <<>> THEN d
    ELSE d_map_from(DictPut(d, Head(ts).read_name, Head(ts).related_sub_topics),
                    Tail(ts))

d_map(ts) == d_map_from(<<>>, ts)

\* next((t_name for t_name, sub_ids in d_map.items() if st.id in sub_ids),
\*      "None")
parent_topic(d, st_id) ==
    LET Holds(n) == st_id \in Range(d[n].v)
    IN  IF \E n \in 1..Len(d) : Holds(n)
        THEN d[CHOOSE n \in 1..Len(d) :
                   Holds(n) /\ \A m \in 1..(n - 1) : ~Holds(m)].k
        ELSE NO_TOPIC

\* One record of get_summary.
SummaryOf(st, ts) ==
    LET st_data == get_data_dict(st)
    IN  [general_topic |-> parent_topic(d_map(ts), st.id),
         subtopic |-> st_data.subtopic,
         sentiment |-> st_data.sentiment,
         number_of_responses |-> st_data.number_of_responses,
         summary |-> st_data.summary]

\* One turn of get_summary's loop.
SummaryRecord ==
    /\ pc = "get_summary"
    /\ i <= Len(subtopics)
    /\ subtopics[i].v.sentiment # <<>>
    /\ records' = Append(records, SummaryOf(subtopics[i].v, topics))
    /\ i' = i + 1
    /\ UNCHANGED <<inputs, topic_model, has_hierarchy, pc, caller, reruns,
                   error, data, subtopics, t_dict, topics, report, calls>>

\* get_data_dict() on a Subtopic whose sentiment dict is empty: max() of an
\* empty dict raises.
SummaryRecord_MaxFails ==
    /\ pc = "get_summary"
    /\ i <= Len(subtopics)
    /\ subtopics[i].v.sentiment = <<>>
    /\ error' = "ValueError"
    /\ pc' = "failed"
    /\ UNCHANGED <<inputs, topic_model, has_hierarchy, i, caller, reruns, data,
                   subtopics, t_dict, topics, records, report, calls>>

\* head keeping the last rows instead of the first.
head_last(rows) ==
    SubSeq(rows, (IF Len(rows) > HEAD_ROWS THEN Len(rows) - HEAD_ROWS ELSE 0) + 1,
           Len(rows))

\* get_summary().head(25)
head(rows) == Take(rows, HEAD_ROWS)

\* run() writes get_summary().head(25) to data/output.csv.
WriteReport ==
    /\ pc = "get_summary"
    /\ i > Len(subtopics)
    /\ report' = [written |-> TRUE, rows |-> head(records)]
    /\ pc' = "done"
    /\ UNCHANGED <<inputs, topic_model, has_hierarchy, i, caller, reruns,
                   error, data, subtopics, t_dict, topics, records, calls>>

\* _build_topic_names is called again on the finished Parser.
AgainTopicNames ==
    /\ pc = "done"
    /\ reruns < MaxReruns
    /\ reruns' = reruns + 1
    /\ caller' = "again"
    /\ pc' = "build_topic_names"
    /\ i' = 1
    /\ UNCHANGED <<inputs, topic_model, has_hierarchy, error, data, subtopics,
                   t_dict, topics, records, report, calls>>

\* _build_subtopic_info is called again on the finished Parser.
AgainSubtopicInfo ==
    /\ pc = "done"
    /\ reruns < MaxReruns
    /\ reruns' = reruns + 1
    /\ caller' = "again"
    /\ pc' = "build_subtopic_info"
    /\ i' = 1
    /\ UNCHANGED <<inputs, topic_model, has_hierarchy, error, data, subtopics,
                   t_dict, topics, records, report, calls>>

Next ==
    \/ Construct
    \/ Run_Package
    \/ Run_PackageFails
    \/ BuildSubtopic
    \/ BuildSubtopicsEnd
    \/ GroupSubtopic
    \/ CreateTopics
    \/ NameTopic_Skip
    \/ NameTopic
    \/ NameTopic_PromptFails
    \/ TopicNamesEnd
    \/ SubtopicInfo
    \/ SubtopicInfoEnd
    \/ SummaryRecord
    \/ SummaryRecord_MaxFails
    \/ WriteReport
    \/ AgainTopicNames
    \/ AgainSubtopicInfo

Spec == Init /\ [][Next]_vars

\* ------------------------------------------------------------- helpers
\* The merge nodes whose leaf set contains leaf.
NodesWith(rows, leaf) == {r \in Range(rows) : leaf \in r.Topics}

\* The nodes of NodesWith that span the fewest leaves.
MinimalNodes(rows, leaf) ==
    {r \in NodesWith(rows, leaf) :
        \A q \in NodesWith(rows, leaf) :
            Cardinality(r.Topics) <= Cardinality(q.Topics)}

\* The minimal node with the lowest Parent_ID.
Nearest(rows, leaf) ==
    CHOOSE r \in MinimalNodes(rows, leaf) :
        \A q \in MinimalNodes(rows, leaf) : r.Parent_ID <= q.Parent_ID

\* The ids of the clusters in the order the Clustering Engine reports them,
\* the uncategorized one left out: the order Subtopics are created in.
CreationOrder ==
    LET Kept(row) == row.Topic # OUTLIER
        kept == SelectSeq(info, Kept)
    IN  [n \in 1..Len(kept) |-> kept[n].Topic]

\* The membership count the Clustering Engine reports for cluster id.
EngineCount(id) == (CHOOSE row \in Range(info) : row.Topic = id).Count

\* Where Subtopic id is in Parser.subtopics.
Position(id) == CHOOSE n \in 1..Len(subtopics) : subtopics[n].k = id

\* _build_topics has returned.
TopicsBuilt ==
    \/ pc \in {"build_topic_names", "build_subtopic_info", "get_summary", "done"}
    \/ pc = "failed" /\ topic_model = "BERTopic"

\* The places <<n, m>> at which Topic n lists id as its m-th member.
PlacesOf(id) ==
    UNION {{<<n, m>> : m \in {k \in 1..Len(topics[n].related_sub_topics) :
                                topics[n].related_sub_topics[k] = id}} :
           n \in 1..Len(topics)}

\* ------------------------------------------------------------------ C1
\* C1: for every leaf id that some merge node contains, assign_topic returns
\* the Parent_Name of the node that, among the nodes containing the id, spans
\* the fewest leaves and, among those, has the lowest Parent_ID, whatever
\* the order of the rows; _build_topics groups every such Subtopic under
\* that name.
C1_NearestParent ==
    /\ \A leaf \in UNION {r.Topics : r \in Range(hier)} :
           assign_topic(hier, leaf) = Nearest(hier, leaf).Parent_Name
    /\ \A n \in 1..Len(t_dict) : \A id \in Range(t_dict[n].v) :
           NodesWith(hier, id) # {} => t_dict[n].k = Nearest(hier, id).Parent_Name

\* A Subtopic has been grouped whose minimal nodes tie, the later row of the
\* table having the lower Parent_ID and another name, while a wider node has
\* a Parent_ID lower still.
C1_TieBroken ==
    \E n \in 1..Len(t_dict) : \E id \in Range(t_dict[n].v) :
        \E a, b, c \in 1..Len(hier) :
            /\ a < b
            /\ hier[a] \in MinimalNodes(hier, id)
            /\ hier[b] \in MinimalNodes(hier, id)
            /\ hier[b].Parent_ID < hier[a].Parent_ID
            /\ hier[b].Parent_Name # hier[a].Parent_Name
            /\ hier[c] \in NodesWith(hier, id) \ MinimalNodes(hier, id)
            /\ hier[c].Parent_ID < hier[b].Parent_ID

\* ------------------------------------------------------------------ C7
\* C7: the written report has min(n, 25) rows for the n clusters the
\* Clustering Engine reports, and row m is the record of the m-th Subtopic in
\* creation order: it carries that cluster's membership count and that
\* Subtopic's name and summary.
C7_FirstRowsInCreationOrder ==
    report.written =>
        /\ Len(report.rows) =
               (IF Len(CreationOrder) < HEAD_ROWS THEN Len(CreationOrder)
                ELSE HEAD_ROWS)
        /\ \A m \in 1..Len(report.rows) :
               /\ report.rows[m].number_of_responses = EngineCount(CreationOrder[m])
               /\ subtopics[m].k = CreationOrder[m]
               /\ reruns = 0 =>
                      /\ report.rows[m].subtopic = subtopics[m].v.read_name
                      /\ report.rows[m].summary = subtopics[m].v.summary

\* A report written of more than 25 Subtopics created in descending id order.
C7_Truncated ==
    /\ report.written
    /\ Len(subtopics) > HEAD_ROWS
    /\ Len(report.rows) = HEAD_ROWS
    /\ subtopics[1].k > subtopics[2].k

\* ------------------------------------------------------------------ C9
\* C9: once _build_topics has returned, every Subtopic id is listed exactly
\* once over all Topics, Topics list only Subtopic ids, each under the name
\* assign_topic resolves it to, no two Topics have the same name, and Topics
\* are in the order in which their first members were created.
C9_TopicPartition ==
    TopicsBuilt =>
        /\ \A n \in 1..Len(subtopics) : Cardinality(PlacesOf(subtopics[n].k)) = 1
        /\ \A n \in 1..Len(topics) :
               /\ topics[n].related_sub_topics # <<>>
               /\ \A id \in Range(topics[n].related_sub_topics) :
                      /\ DictHas(subtopics, id)
                      /\ topics[n].name = assign_topic(hier, id)
        /\ \A n, m \in 1..Len(topics) :
               n < m =>
                   /\ topics[n].name # topics[m].name
                   /\ Position(topics[n].related_sub_topics[1])
                          < Position(topics[m].related_sub_topics[1])

\* Two Subtopics whose nearest merge nodes differ and have one name share
\* the only Topic.
C9_SharedTopic ==
    /\ TopicsBuilt
    /\ Len(topics) = 1
    /\ Len(topics[1].related_sub_topics) = 2
    /\ Len(hier) > 1
    /\ Nearest(hier, 0).Parent_ID # Nearest(hier, 1).Parent_ID

\* ----------------------------------------------------------------- C10
\* C10: every Subtopic's count, and the Number of Responses of every record
\* and of every report row made of it, is the membership count the
\* Clustering Engine reports for its cluster, whatever the sample holds and
\* whichever passes have run.
C10_CountPassThrough ==
    /\ \A n \in 1..Len(subtopics) :
           subtopics[n].v.count = EngineCount(subtopics[n].k)
    /\ \A n \in 1..Len(records) :
           records[n].number_of_responses = EngineCount(subtopics[n].k)
    /\ \A n \in 1..Len(report.rows) :
           report.rows[n].number_of_responses = EngineCount(subtopics[n].k)

\* A report row of a cluster of 7 members whose sample was cut to 4
\* documents, after a naming pass ran again.
C10_SevenOfFour ==
    /\ report.written
    /\ reruns > 0
    /\ pc = "done"
    /\ \E n \in 1..Len(report.rows) :
           /\ report.rows[n].number_of_responses = 7
           /\ Len(subtopics[n].v.feedback) = SAMPLE_SIZE
           /\ Len(info[1].Docs) > SAMPLE_SIZE

\* ------------------------------------------------------ generation log
\* The generation calls of kinds `kinds` issued for Subtopic id, as places
\* of the log.
SubtopicCalls(log, kinds, id) ==
    {n \in 1..Len(log) :
        /\ log[n].engine = "generation"
        /\ log[n].kind \in kinds
        /\ log[n].st = id}

\* The generation calls issued for the Topic named name.
TopicCalls(log, name) ==
    {n \in 1..Len(log) :
        /\ log[n].engine = "generation"
        /\ log[n].kind = "topic_name"
        /\ log[n].topic = name}

\* The generation calls that raised.
RaisedCalls == {n \in 1..Len(calls) : calls[n].engine = "generation" /\ calls[n].raised}

\* ------------------------------------------------------------------ C2
\* C2: no step issues a generation call for, or changes the read_name or
\* summary of, a Topic that holds a non-empty read_name or a Subtopic that
\* holds a non-empty read_name and a non-empty summary.
C2_WriteOnce ==
    [][/\ \A n \in 1..Len(topics) :
              Truthy(topics[n].read_name) =>
                  /\ topics'[n].read_name = topics[n].read_name
                  /\ TopicCalls(calls', topics[n].name) = TopicCalls(calls, topics[n].name)
       /\ \A n \in 1..Len(subtopics) :
              (Truthy(subtopics[n].v.read_name) /\ Truthy(subtopics[n].v.summary)) =>
                  /\ subtopics'[n].v.read_name = subtopics[n].v.read_name
                  /\ subtopics'[n].v.summary = subtopics[n].v.summary
                  /\ SubtopicCalls(calls', {"subtopic_name", "summary"}, subtopics[n].k)
                         = SubtopicCalls(calls, {"subtopic_name", "summary"}, subtopics[n].k)
      ]_vars

\* The part of C2 about Topics, which _build_topic_names keeps.
TopicsWriteOnce ==
    [][\A n \in 1..Len(topics) :
           Truthy(topics[n].read_name) =>
               /\ topics'[n].read_name = topics[n].read_name
               /\ TopicCalls(calls', topics[n].name) = TopicCalls(calls, topics[n].name)
      ]_vars

\* ------------------------------------------------------------------ C3
\* run()'s call of _build_subtopic_info has returned and no pass ran again.
SubtopicInfoDone ==
    /\ reruns = 0
    /\ \/ pc \in {"get_summary", "done"}
       \/ pc = "failed" /\ error = "ValueError"

\* The generator raised once, for a summary.
OneSummaryRaised ==
    /\ Cardinality(RaisedCalls) = 1
    /\ \A n \in RaisedCalls : calls[n].kind = "summary"

\* After the pass every Subtopic was visited once, the Subtopic whose
\* summary call raised holds the sentinel, and every other summary and every
\* read_name is the stripped text generated for it.
Isolated ==
    \A n \in 1..Len(subtopics) :
        LET st == subtopics[n].v
            name_calls == SubtopicCalls(calls, {"subtopic_name"}, st.id)
            summary_calls == SubtopicCalls(calls, {"summary"}, st.id)
        IN  /\ Cardinality(name_calls) = 1
            /\ Cardinality(summary_calls) = 1
            /\ \A c \in name_calls : st.read_name = Strip(calls[c].text)
            /\ \A c \in summary_calls :
                   st.summary = IF calls[c].raised THEN ERROR_SUMMARY
                                ELSE Strip(calls[c].text)

\* run() has not failed, and the report it writes has the row of every
\* Subtopic whose summary call raised.
ReportedAll ==
    /\ pc # "failed"
    /\ pc = "done" =>
           /\ report.written
           /\ \A c \in RaisedCalls :
                  /\ Position(calls[c].st) <= Len(report.rows)
                  /\ report.rows[Position(calls[c].st)].summary = ERROR_SUMMARY

\* C3: when the generator raised for exactly one Subtopic's summary call,
\* then after _build_subtopic_info that Subtopic's summary is the sentinel,
\* every other summary and every read_name is the text generated for it,
\* every Subtopic was visited, and run() goes on to write a report with a
\* row for that Subtopic.
C3_FailureIsolated ==
    (SubtopicInfoDone /\ OneSummaryRaised) => (Isolated /\ ReportedAll)

\* The part of C3 about the pass itself, which the code keeps.
PassIsolated == (SubtopicInfoDone /\ OneSummaryRaised) => Isolated

\* ------------------------------------------------------------------ C4
\* The Subtopics that no merge node contains.
Unresolved == {n \in 1..Len(subtopics) : NodesWith(hier, subtopics[n].k) = {}}

\* C4: when no merge node contains a Subtopic's id, the Subtopic is placed
\* in the Topic of the sentinel name and run() does not fail: it goes on
\* through the naming passes and writes a report that has the Subtopic's
\* row.
C4_MissNonFatal ==
    (TopicsBuilt /\ Unresolved # {}) =>
        /\ \A n \in Unresolved :
               \E m \in 1..Len(topics) :
                   /\ topics[m].name = None
                   /\ subtopics[n].k \in Range(topics[m].related_sub_topics)
        /\ pc # "failed"
        /\ pc = "done" => \A n \in Unresolved : n <= Len(report.rows)

\* The part of C4 about _build_topics, which the code keeps.
MissGrouped ==
    (TopicsBuilt /\ Unresolved # {}) =>
        \A n \in Unresolved :
            \E m \in 1..Len(topics) :
                /\ topics[m].name = None
                /\ subtopics[n].k \in Range(topics[m].related_sub_topics)

\* ------------------------------------------------------------------ C5
\* C5: on an input without feedback rows no topic model is fitted and the
\* Parser, constructed and run, does not fail; when it is done the report is
\* written and empty.
C5_EmptyCorpus ==
    sentences = 0 =>
        /\ topic_model # "BERTopic"
        /\ pc # "failed"
        /\ pc = "done" => (report.written /\ report.rows = <<>>)

\* ------------------------------------------------------------------ C6
\* The read_name of the Topic that lists Subtopic id, or the sentinel "None"
\* when no Topic does.
OwnerName(id) ==
    IF PlacesOf(id) = {} THEN NO_TOPIC
    ELSE topics[(CHOOSE place \in PlacesOf(id) : TRUE)[1]].read_name

\* C6: the General Topic of every record of get_summary is the read_name of
\* the Topic whose related_sub_topics holds the Subtopic's id, or "None" when
\* no Topic holds it, whatever read_names the Topics have.
C6_ReverseLookup ==
    reruns = 0 =>
        \A n \in 1..Len(records) :
            records[n].general_topic = OwnerName(subtopics[n].k)

\* ------------------------------------------------------------------ C8
\* Label has the highest count of the mapping and is the first inserted of
\* the labels that have it.
IsMajority(label, sentiment) ==
    \E n \in 1..Len(sentiment) :
        /\ sentiment[n].k = label
        /\ \A m \in 1..Len(sentiment) : sentiment[m].v <= sentiment[n].v
        /\ \A m \in 1..(n - 1) : sentiment[m].v < sentiment[n].v

\* The Subtopics get_summary has made, or tried to make, the record of.
Summarised ==
    {n \in 1..Len(subtopics) :
        \/ pc = "done"
        \/ pc = "get_summary" /\ n < i
        \/ pc = "failed" /\ error = "ValueError" /\ n <= i}

\* C8: every Subtopic get_summary comes to, whatever its sample of 0 to 4
\* strings, has a record whose Sentiment is the majority label of its
\* sentiment mapping, the first inserted one on a tie.
C8_MajoritySentiment ==
    \A n \in Summarised :
        /\ n <= Len(records)
        /\ IsMajority(records[n].sentiment, subtopics[n].v.sentiment)

\* The part of C8 the code keeps: every record made has the majority label.
MajorityOfRecords ==
    \A n \in 1..Len(records) :
        IsMajority(records[n].sentiment, subtopics[n].v.sentiment)

\* ----------------------------------------------------------------- C11
\* The stage of run() a logged call belongs to: the sentiment tally, Topic
\* naming, or Subtopic naming and summary.
StageOf(call) ==
    IF call.engine = "sentiment" THEN 1
    ELSE IF call.kind = "topic_name" THEN 2 ELSE 3

\* The generation calls of the log.
GenerationCalls == {n \in 1..Len(calls) : calls[n].engine = "generation"}

\* No call of an earlier stage follows a call of a later one.
StagesInOrder ==
    \A a, b \in 1..Len(calls) : a < b => StageOf(calls[a]) <= StageOf(calls[b])

\* Every Subtopic's name call is followed at once by its summary call, and
\* every summary call follows such a name call.
NameThenSummary ==
    \A n \in GenerationCalls :
        /\ calls[n].kind = "subtopic_name" =>
               /\ n < Len(calls)
               /\ calls[n + 1].kind = "summary"
               /\ calls[n + 1].st = calls[n].st
        /\ calls[n].kind = "summary" =>
               /\ n > 1
               /\ calls[n - 1].kind = "subtopic_name"
               /\ calls[n - 1].st = calls[n].st

\* One generation call per Topic and two per Subtopic.
CallBudget ==
    Cardinality(GenerationCalls) = Len(topics) + 2 * Len(subtopics)

\* C11: in one run(), with no pass called again, sentiment calls come before
\* Topic-naming calls and those before Subtopic name and summary calls, a
\* Subtopic's name call comes right before its summary call, and once the
\* report is being assembled or run() has ended, the generation calls made
\* are one per Topic and two per Subtopic.
C11_StagesAndBudget ==
    reruns = 0 =>
        /\ StagesInOrder
        /\ NameThenSummary
        /\ pc \in {"get_summary", "done", "failed"} => CallBudget

\* The part of C11 the code keeps: the order in every run, and the budget of
\* every run whose naming passes return.
StagesAndBudgetOfNamedRuns ==
    reruns = 0 =>
        /\ StagesInOrder
        /\ NameThenSummary
        /\ (pc \in {"get_summary", "done"} \/ (pc = "failed" /\ error = "ValueError"))
               => CallBudget

\* ----------------------------------------------------------------- C12
\* A feedback string that is empty or holds only whitespace.
IsBlank(fb) == \A n \in 1..Len(fb) : fb[n] \in Whitespace

\* The texts the classifier was called with for Subtopic id, in order.
ClassifiedFor(id) ==
    LET Mine(call) == call.engine = "sentiment" /\ call.st = id
        mine == SelectSeq(calls, Mine)
    IN  [n \in 1..Len(mine) |-> mine[n].text]

\* The sum of the counts of a sentiment mapping.
RECURSIVE SumOfCounts(_)
SumOfCounts(sentiment) ==
    IF sentiment = <<>> THEN 0
    ELSE Head(sentiment).v + SumOfCounts(Tail(sentiment))

\* C12: for every Subtopic the classifier is called once for each string of
\* its sample that is not blank, in order, and for no blank string; the
\* blank strings are counted under NEUTRAL; the counts of the sentiment
\* mapping sum to the size of the sample, which is at most 4, and every
\* label of the mapping has a count of at least 1.
C12_SentimentTally ==
    \A n \in 1..Len(subtopics) :
        LET st == subtopics[n].v
            NotBlank(fb) == ~IsBlank(fb)
            blanks == {m \in 1..Len(st.feedback) : IsBlank(st.feedback[m])}
        IN  /\ ClassifiedFor(st.id) = SelectSeq(st.feedback, NotBlank)
            /\ IF blanks = {} THEN ~DictHas(st.sentiment, NEUTRAL)
               ELSE /\ DictHas(st.sentiment, NEUTRAL)
                    /\ DictGet(st.sentiment, NEUTRAL) = Cardinality(blanks)
            /\ SumOfCounts(st.sentiment) = Len(st.feedback)
            /\ Len(st.feedback) <= SAMPLE_SIZE
            /\ \A m \in 1..Len(st.sentiment) : st.sentiment[m].v >= 1

\* A Subtopic whose sample was cut to 4 strings, an empty one and a
\* whitespace one among them, the other two classified.
C12_MixedSample ==
    \E n \in 1..Len(subtopics) :
        LET st == subtopics[n].v
        IN  /\ Len(info[1].Docs) > SAMPLE_SIZE
            /\ Len(st.feedback) = SAMPLE_SIZE
            /\ <<>> \in Range(st.feedback)
            /\ <<" ">> \in Range(st.feedback)
            /\ DictHas(st.sentiment, NEUTRAL)
            /\ DictGet(st.sentiment, NEUTRAL) = 2
            /\ Len(ClassifiedFor(st.id)) = 2

====
